---- MODULE Spec2Model ----
(***************************************************************************)
(* Model of the spectrs spectrogram engine (par_compute_spectrogram), of   *)
(* the mel stage (create_mel_filter_bank, convert_to_mel), of the WAV      *)
(* reader (read_audio_file_mono) and of the image writer                   *)
(* (save_spectrogram_image).                                               *)
(*                                                                         *)
(* Numbers.  An f32 is modelled as an extended rational <<k, n, d>>:       *)
(*   <<0, n, d>>, d > 0   the rational n/d in lowest terms                 *)
(*   <<0, 1, 0>>, <<0, -1, 0>>   +infinity, -infinity                      *)
(*   <<0, 0, 0>>          NaN                                              *)
(*   <<1, n, d>>          the irrational square root of n/d (n/d > 0 not a *)
(*                        perfect square), produced only by Complex::norm  *)
(* IEEE rules for NaN, infinities and division by zero are kept; rounding  *)
(* to 24 bits and the sign of zero are not modelled.                       *)
(***************************************************************************)
EXTENDS Integers, Sequences, FiniteSets, TLC

\* ------------------------------------------------------------------ bounds
MaxLen == 5
MaxHop == 2
MaxWin == 4

\* transform sizes whose roots of unity have rational coordinates
NFftValues == {3, 4, 6}

\* ------------------------------------------------------------- arithmetic
Abs(x) == IF x < 0 THEN -x ELSE x

Min(a, b) == IF a < b THEN a ELSE b

Max(a, b) == IF a > b THEN a ELSE b

RECURSIVE GCD(_, _)
GCD(a, b) == IF b = 0 THEN a ELSE GCD(b, a % b)

\* the rational n/d (d # 0) in lowest terms with a positive denominator
Q(n, d) ==
    IF d = 1 THEN <<0, n, 1>>
    ELSE LET g == GCD(Abs(n), Abs(d))
             s == IF d < 0 THEN -1 ELSE 1
         IN  <<0, (s * n) \div g, (s * d) \div g>>

\* the product (n1/d1) * (n2/d2) of two rationals in lowest terms
QMul(n1, d1, n2, d2) ==
    LET g1 == GCD(Abs(n1), d2)
        g2 == GCD(Abs(n2), d1)
    IN  <<0, (n1 \div g1) * (n2 \div g2), (d1 \div g2) * (d2 \div g1)>>

NaN == <<0, 0, 0>>

Inf(s) == <<0, s, 0>>

Zero == <<0, 0, 1>>

FromInt(i) == <<0, i, 1>>

IsNaN(x) == x = NaN

IsInf(x) == x[1] = 0 /\ x[3] = 0 /\ x[2] # 0

IsSurd(x) == x[1] = 1

Sgn(i) == IF i > 0 THEN 1 ELSE IF i < 0 THEN -1 ELSE 0

\* sign of a number that is not NaN
FSign(x) == IF IsSurd(x) THEN 1 ELSE Sgn(x[2])

FNeg(x) == IF IsNaN(x) THEN NaN ELSE <<x[1], -x[2], x[3]>>

FAdd(x, y) ==
    IF x = Zero THEN y
    ELSE IF y = Zero THEN x
    ELSE IF IsNaN(x) \/ IsNaN(y) THEN NaN
    ELSE IF IsInf(x) /\ IsInf(y) THEN (IF x = y THEN x ELSE NaN)
    ELSE IF IsInf(x) THEN x
    ELSE IF IsInf(y) THEN y
    ELSE LET g == GCD(x[3], y[3])
         IN  Q(x[2] * (y[3] \div g) + y[2] * (x[3] \div g), (x[3] \div g) * y[3])

FSub(x, y) == FAdd(x, FNeg(y))

FMul(x, y) ==
    IF IsNaN(x) \/ IsNaN(y) THEN NaN
    ELSE IF IsInf(x) \/ IsInf(y)
         THEN (IF FSign(x) * FSign(y) = 0 THEN NaN ELSE Inf(FSign(x) * FSign(y)))
    ELSE QMul(x[2], x[3], y[2], y[3])

FDiv(x, y) ==
    IF IsNaN(x) \/ IsNaN(y) THEN NaN
    ELSE IF IsInf(y) THEN (IF IsInf(x) THEN NaN ELSE Zero)
    ELSE IF y[2] = 0 THEN (IF x[2] = 0 THEN NaN ELSE Inf(FSign(x)))
    ELSE IF IsInf(x) THEN Inf(FSign(x) * FSign(y))
    ELSE IF y[2] < 0 THEN QMul(-x[2], x[3], y[3], -y[2])
    ELSE QMul(x[2], x[3], y[3], y[2])

\* x < y on numbers without square roots; any comparison with NaN is false
FLt(x, y) ==
    IF IsNaN(x) \/ IsNaN(y) THEN FALSE
    ELSE IF IsInf(x) \/ IsInf(y) THEN
         (IF IsInf(x) /\ IsInf(y) THEN x[2] < y[2]
          ELSE IF IsInf(x) THEN x[2] < 0 ELSE y[2] > 0)
    ELSE LET g == GCD(x[3], y[3])
         IN  x[2] * (y[3] \div g) < y[2] * (x[3] \div g)

\* x >= 0.0 as f32 comparison: false for NaN
FGeZero(x) == ~IsNaN(x) /\ FSign(x) >= 0

\* x == y on f32: a NaN equals nothing, itself included
FEq(x, y) == ~IsNaN(x) /\ ~IsNaN(y) /\ x = y

IsSquare(n) == \E r \in 0..n : r * r = n

IntSqrt(n) == CHOOSE r \in 0..n : r * r = n

\* f32::sqrt / hypot result for the argument x
FSqrt(x) ==
    IF IsNaN(x) THEN NaN
    ELSE IF IsInf(x) THEN (IF x[2] > 0 THEN x ELSE NaN)
    ELSE IF x[2] < 0 THEN NaN
    ELSE IF IsSquare(x[2]) /\ IsSquare(x[3]) THEN Q(IntSqrt(x[2]), IntSqrt(x[3]))
    ELSE <<1, x[2], x[3]>>

\* x * x, also for the square roots FSqrt produces
FSquare(x) == IF IsSurd(x) THEN <<0, x[2], x[3]>> ELSE FMul(x, x)

\* a sequence given by its elements, each computed once
Vec(f) == f \o <<>>

\* ------------------------------------------------------------ Hann window
\* cos(2*pi*t/12) for the multiples of 30 degrees whose cosine is rational
CosTwelfth(t) ==
    CASE t = 0 -> Q(1, 1)
      [] t = 2 -> Q(1, 2)
      [] t = 3 -> Q(0, 1)
      [] t = 4 -> Q(-1, 2)
      [] t = 6 -> Q(-1, 1)
      [] t = 8 -> Q(-1, 2)
      [] t = 9 -> Q(0, 1)
      [] t = 10 -> Q(1, 2)

\* (2.0 * PI * i / (length - 1)).cos(); 0.0 / 0.0 is NaN
CosTurn(i, q) == IF q = 0 THEN NaN ELSE CosTwelfth(((12 * i) \div q) % 12)

\* create_hann_window: 0.5 * (1 - cos(2 pi i / (length - 1))), i in [0, length)
create_hann_window(length) ==
    [i \in 1..length |->
        FMul(Q(1, 2), FSub(FromInt(1), CosTurn(i - 1, length - 1)))]

\* ------------------------------------------------- forward transform (FFT)
\* A complex number is a pair <<a, b>> standing for a + b*u, where u = i when
\* the transform size divides 4 and u = exp(2 pi i / 3) when it is 3 or 6, so
\* that every root of unity of the transform has integer coordinates.
RootOrder(n) == IF n \in {3, 6} THEN 6 ELSE 4

CZero == <<Zero, Zero>>

CAdd(z, w) == <<FAdd(z[1], w[1]), FAdd(z[2], w[2])>>

\* z times the generator of the roots of unity: i (order 4), 1 + u (order 6)
MulUnit(z, ord) ==
    IF ord = 4 THEN <<FNeg(z[2]), z[1]>>
    ELSE <<FSub(z[1], z[2]), z[1]>>

RECURSIVE Rot(_, _, _)
Rot(z, m, ord) == IF m = 0 THEN z ELSE Rot(MulUnit(z, ord), m - 1, ord)

\* exponent of the generator giving exp(-2 pi i f j / n)
Twiddle(f, j, n) ==
    LET ord == RootOrder(n)
    IN  (ord - ((f * j * (ord \div n)) % ord)) % ord

RECURSIVE DFTSum(_, _, _, _)
DFTSum(buf, f, j, n) ==
    IF j = n THEN CZero
    ELSE IF buf[j + 1] = CZero THEN DFTSum(buf, f, j + 1, n)
    ELSE CAdd(Rot(buf[j + 1], Twiddle(f, j, n), RootOrder(n)),
              DFTSum(buf, f, j + 1, n))

\* fft.process(&mut frame): X[f] = sum_j x[j] exp(-2 pi i f j / n)
FftProcess(buf, n) == [f \in 1..n |-> DFTSum(buf, f - 1, 0, n)]

\* Complex::norm_sqr: re^2 + im^2
norm_sqr(z, n) ==
    IF RootOrder(n) = 4
    THEN FAdd(FMul(z[1], z[1]), FMul(z[2], z[2]))
    ELSE FAdd(FSub(FMul(z[1], z[1]), FMul(z[1], z[2])), FMul(z[2], z[2]))

\* Complex::norm: sqrt(re^2 + im^2)
norm(z, n) == FSqrt(norm_sqr(z, n))

\* both spectrogram types mapped to Complex::norm
transform_fn_AlwaysNorm(type, z, n) == norm(z, n)

\* transform_fn selected by spectrogram_type
transform_fn(type, z, n) ==
    IF type = "Magnitude" THEN norm(z, n) ELSE norm_sqr(z, n)

\* ------------------------------------------------------------- mel scale
\* f32::max and f32::min: when one argument is NaN the other is returned
FMaxRust(a, b) ==
    IF IsNaN(a) THEN b ELSE IF IsNaN(b) THEN a ELSE IF FLt(a, b) THEN b ELSE a

FMinRust(a, b) ==
    IF IsNaN(a) THEN b ELSE IF IsNaN(b) THEN a ELSE IF FLt(b, a) THEN b ELSE a

\* Logarithms and powers are evaluated where they are rational: at the integer
\* powers of the base.  The arguments of the mel stage are drawn from the
\* values for which every evaluation is of that kind (MelArgsExact below).
Exponents == -1..3

RECURSIVE IntPow(_, _)
IntPow(b, e) == IF e = 0 THEN FromInt(1) ELSE FMul(b, IntPow(b, e - 1))

\* base.powf(e) for an integer e
Powf(b, e) ==
    IF e[2] >= 0 THEN IntPow(b, e[2]) ELSE FDiv(FromInt(1), IntPow(b, -e[2]))

HasPowf(e) == ~IsNaN(e) /\ ~IsInf(e) /\ e[3] = 1 /\ e[2] \in Exponents

HasLog(x, b) == \E e \in Exponents : Powf(b, FromInt(e)) = x

\* x.log(b)
Log(x, b) == FromInt(CHOOSE e \in Exponents : Powf(b, FromInt(e)) = x)

MelScale == {"HTK", "Slaney"}

\* hz_to_mel
hz_to_mel(hz, mel_scale) ==
    IF mel_scale = "HTK"
    THEN FMul(FromInt(2595), Log(FAdd(FromInt(1), FDiv(hz, FromInt(700))), FromInt(10)))
    ELSE IF FLt(hz, FromInt(1000))
         THEN FDiv(FMul(FromInt(3), hz), FromInt(200))
         ELSE FAdd(FromInt(15),
                   FMul(FromInt(27), Log(FDiv(hz, FromInt(1000)), Q(32, 5))))

\* the Slaney inverse without its logarithmic branch
mel_to_hz_LinearOnly(mel, mel_scale) ==
    IF mel_scale = "HTK"
    THEN FMul(FromInt(700),
              FSub(Powf(FromInt(10), FDiv(mel, FromInt(2595))), FromInt(1)))
    ELSE FDiv(FMul(FromInt(200), mel), FromInt(3))

\* mel_to_hz
mel_to_hz(mel, mel_scale) ==
    IF mel_scale = "HTK"
    THEN FMul(FromInt(700),
              FSub(Powf(FromInt(10), FDiv(mel, FromInt(2595))), FromInt(1)))
    ELSE IF FLt(mel, FromInt(15))
         THEN FDiv(FMul(FromInt(200), mel), FromInt(3))
         ELSE FMul(Powf(Q(32, 5), FDiv(FSub(mel, FromInt(15)), FromInt(27))),
                   FromInt(1000))

\* the i-th of n points linearly spaced in the mel domain (i from 0)
MelPoint(mel_min, mel_max, i, n) ==
    FAdd(mel_min, FDiv(FMul(FSub(mel_max, mel_min), FromInt(i)), FromInt(n - 1)))

\* create_mel_frequencies: n_mels points between f_min and f_max, in Hz
create_mel_frequencies(f_min, f_max, n_mels, mel_scale) ==
    LET mel_min == hz_to_mel(f_min, mel_scale)
        mel_max == hz_to_mel(f_max, mel_scale)
    IN  Vec([i \in 1..n_mels |->
                mel_to_hz(MelPoint(mel_min, mel_max, i - 1, n_mels), mel_scale)])

\* Option<f32>: <<>> is None, <<x>> is Some(x)
None == <<>>

Some(x) == <<x>>

\* a missing option read as 0.0 whatever the default
unwrap_or_Zero(opt, default) == IF opt = None THEN Zero ELSE opt[1]

unwrap_or(opt, default) == IF opt = None THEN default ELSE opt[1]

\* fft_freqs[j] = j * sr / n_fft for j in 0..=n_fft/2
FftFreqs(sr, n_fft) ==
    Vec([j \in 1..(n_fft \div 2 + 1) |->
            FDiv(FMul(FromInt(j - 1), FromInt(sr)), FromInt(n_fft))])

\* no normalisation: every row keeps its unit peak
Enorm_Unit(mel_freqs, i) == FromInt(1)

\* enorm[i] = 2.0 / (mel_freqs[i + 2] - mel_freqs[i])
Enorm(mel_freqs, i) == FDiv(FromInt(2), FSub(mel_freqs[i + 2], mel_freqs[i]))

\* the same weight without the clamp at zero
Triangle_NoClampAtZero(mel_freqs, i, fft_freq) ==
    LET lower == FDiv(FNeg(FSub(mel_freqs[i], fft_freq)),
                      FSub(mel_freqs[i + 1], mel_freqs[i]))
        upper == FDiv(FSub(mel_freqs[i + 2], fft_freq),
                      FSub(mel_freqs[i + 2], mel_freqs[i + 1]))
    IN  FMinRust(lower, upper)

\* the triangular weight of filter i at an FFT bin of frequency fft_freq,
\* before normalisation: 0.0f32.max(lower.min(upper))
Triangle(mel_freqs, i, fft_freq) ==
    LET lower == FDiv(FNeg(FSub(mel_freqs[i], fft_freq)),
                      FSub(mel_freqs[i + 1], mel_freqs[i]))
        upper == FDiv(FSub(mel_freqs[i + 2], fft_freq),
                      FSub(mel_freqs[i + 2], mel_freqs[i + 1]))
    IN  FMaxRust(Zero, FMinRust(lower, upper))

\* create_mel_filter_bank: weights[i][j], n_mels rows of 1 + n_fft / 2 entries
create_mel_filter_bank(sr, n_fft, n_mels, f_min, f_max, mel_scale) ==
    LET fmin == unwrap_or(f_min, Zero)
        fmax == unwrap_or(f_max, FDiv(FromInt(sr), FromInt(2)))
        bins == 1 + n_fft \div 2
        fft_freqs == FftFreqs(sr, n_fft)
        mel_freqs == create_mel_frequencies(fmin, fmax, n_mels + 2, mel_scale)
    IN  [i \in 1..n_mels |->
            [j \in 1..bins |->
                FMul(Triangle(mel_freqs, i, fft_freqs[j]), Enorm(mel_freqs, i))]]

\* a sum that stops after the first frequency bin
DotColumn_FirstBinOnly(spec, filter, t, n) ==
    IF n = 0 THEN Zero ELSE FMul(spec[1][t], filter[1])

RECURSIVE DotColumn(_, _, _, _)
\* sum over the zipped rows: spectrogram[f][t] * filter[f], f from 1 to n
DotColumn(spec, filter, t, n) ==
    IF n = 0 THEN Zero
    ELSE FAdd(DotColumn(spec, filter, t, n - 1), FMul(spec[n][t], filter[n]))

\* the same loop stopping one time frame early
ApplyFilters_DropLastFrame(spec, mel_filters, n_mels) ==
    [i \in 1..n_mels |->
        [t \in 1..(Len(spec[1]) - 1) |->
            DotColumn(spec, mel_filters[i], t,
                      Min(Len(spec), Len(mel_filters[i])))]]

\* the loop of convert_to_mel over the filters and the time frames
ApplyFilters(spec, mel_filters, n_mels) ==
    [i \in 1..n_mels |->
        [t \in 1..Len(spec[1]) |->
            DotColumn(spec, mel_filters[i], t,
                      Min(Len(spec), Len(mel_filters[i])))]]

\* ------------------------------------------------------- spectrogram engine
VARIABLES
    audio,                  \* &[f32]: the signal
    n_samples,              \* transform size (n_fft)
    hop_length,
    win_length,
    center,
    overflow_checks,        \* build profile: usize overflow panics ("on") or wraps ("off")
    spectrogram_type,       \* "Magnitude" | "Power", argument of the running call
    mode,                   \* "par": par_compute_spectrogram, "seq": compute_spectrogram
    pc,                     \* "idle" | "frames" | "returned" | "panicked"
    window,                 \* Vec<f32> built by create_hann_window
    n_frames,
    n_freq_bins,
    transposed_spectrogram, \* frame-major buffer [frame][freq]
    pending,                \* frame indices whose work unit has not run yet
    in_order,               \* the units have run in increasing frame order so far
    spectrogram,            \* the returned matrix [freq][frame]
    prev,                   \* what the previous call on the same inputs returned
    mel_args,               \* arguments of the convert_to_mel call
    mel_filters,            \* the filter bank convert_to_mel built
    mel_spec,               \* the matrix convert_to_mel returned
    scale_hz,               \* a frequency handed to hz_to_mel
    scale_sel,              \* the MelScale of the conversion
    scale_mel,              \* hz_to_mel(scale_hz, scale_sel)
    scale_back,             \* mel_to_hz(scale_mel, scale_sel)
    scale_pc,               \* "idle" | "mel" | "back"
    wav,                    \* the WAV file: channels, bits_per_sample, data
    read_i,                 \* index of the next sample of the file
    acc,                    \* i64 accumulator of read_audio_file_mono
    samples,                \* Vec<f32> read_audio_file_mono is building
    read_pc,                \* "idle" | "loop" | "ok" | "err"
    img_in,                 \* the matrix handed to save_spectrogram_image
    img,                    \* the ImageBuffer: width, height, pixels
    img_pos,                \* number of cells the fill loop has visited
    img_pc                  \* "idle" | "fill" | "filled" | "panicked"

vars == <<audio, n_samples, hop_length, win_length, center, overflow_checks,
          spectrogram_type, mode, pc, window, n_frames, n_freq_bins,
          transposed_spectrogram, pending, in_order, spectrogram, prev,
          mel_args, mel_filters, mel_spec,
          scale_hz, scale_sel, scale_mel, scale_back, scale_pc,
          wav, read_i, acc, samples, read_pc,
          img_in, img, img_pos, img_pc>>

melvars == <<mel_args, mel_filters, mel_spec>>

scalevars == <<scale_hz, scale_sel, scale_mel, scale_back, scale_pc>>

\* the state of the stages outside the engine and the mel stage
readvars == <<wav, read_i, acc, samples, read_pc>>

imagevars == <<img_in, img, img_pos, img_pc>>

aux == <<scalevars, readvars, imagevars>>

inputs == <<audio, n_samples, hop_length, win_length, center>>

SpectrogramType == {"Magnitude", "Power"}

Modes == {"par", "seq"}

\* test signals with samples in [-1, 1]: silence, a constant, an impulse, and
\* cosines at half and at a quarter of the sample rate
SignalKinds == {"zero", "dc", "impulse", "nyquist", "quarter"}

Sample(kind, t) ==
    CASE kind = "zero" -> 0
      [] kind = "dc" -> 1
      [] kind = "impulse" -> (IF t = 1 THEN 1 ELSE 0)
      [] kind = "nyquist" -> (IF t % 2 = 0 THEN 1 ELSE -1)
      [] kind = "quarter" -> (CASE t % 4 = 0 -> 1 [] t % 4 = 2 -> -1 [] OTHER -> 0)

Audios == {[i \in 1..l |-> Sample(kind, i - 1)] : kind \in SignalKinds, l \in 0..MaxLen}

NoMelArgs == [sr |-> 0, n_mels |-> 0, f_min |-> None, f_max |-> None,
              mel_scale |-> "HTK"]

NoWav == [channels |-> 1, bits_per_sample |-> 8, data |-> <<>>]

NoPrev == [valid |-> FALSE, type |-> "Power", mode |-> "par",
           in_order |-> TRUE, out |-> <<>>]

\* the scale conversions have not been called
ScaleIdle ==
    /\ scale_hz = Zero
    /\ scale_sel = "HTK"
    /\ scale_mel = Zero
    /\ scale_back = Zero
    /\ scale_pc = "idle"

\* no file has been read
ReadIdle ==
    /\ wav = NoWav
    /\ read_i = 0
    /\ acc = 0
    /\ samples = <<>>
    /\ read_pc = "idle"

NoImage == [width |-> 0, height |-> 0, pixels |-> <<>>]

\* no image has been rendered
ImageIdle ==
    /\ img_in = <<>>
    /\ img = NoImage
    /\ img_pos = 0
    /\ img_pc = "idle"

Init ==
    /\ audio \in Audios
    /\ n_samples \in NFftValues
    /\ hop_length \in 0..MaxHop
    /\ win_length \in 0..MaxWin
    /\ center \in BOOLEAN
    /\ overflow_checks = "unset"
    /\ spectrogram_type = "Power"
    /\ mode = "par"
    /\ pc = "idle"
    /\ window = <<>>
    /\ n_frames = 0
    /\ n_freq_bins = 0
    /\ transposed_spectrogram = <<>>
    /\ pending = {}
    /\ in_order = TRUE
    /\ spectrogram = <<>>
    /\ prev = NoPrev
    /\ mel_args = NoMelArgs
    /\ mel_filters = <<>>
    /\ mel_spec = <<>>
    /\ ScaleIdle
    /\ ReadIdle
    /\ ImageIdle

\* audio.len().saturating_sub(win_length)
saturating_sub(a, b) == IF a >= b THEN a - b ELSE 0

\* frame count without the final "+ 1"
NumFrames_NoPlusOne(len, win, hop) == saturating_sub(len, win) \div hop

\* frame count that is zero for a signal shorter than the window
NumFrames_ZeroWhenShort(len, win, hop) ==
    IF len < win THEN 0 ELSE (len - win) \div hop + 1

\* one frame for every hop that starts inside the signal, and one more
NumFrames_EveryHop(len, win, hop) == len \div hop + 2

\* frame count that rounds the number of hops up, keeping a partial last frame
NumFrames_RoundUp(len, win, hop) == (saturating_sub(len, win) + hop - 1) \div hop + 1

\* one frame more than the hops that fit
NumFrames_OneMore(len, win, hop) == saturating_sub(len, win) \div hop + 2

\* (audio.len().saturating_sub(win_length)) / hop_length + 1
NumFrames(len, win, hop) == saturating_sub(len, win) \div hop + 1

\* bin count without the Nyquist bin
NumFreqBins_NoPlusOne(n) == n \div 2

\* n_samples / 2 + 1
NumFreqBins(n) == n \div 2 + 1

\* n_samples - win_length wraps when win_length > n_samples and overflow checks
\* are off; the wrapped offset is at least 2^63 - 1, which no buffer reaches, so
\* it is represented by the buffer length: skip() then leaves nothing to write.
\* the offset without the halving
CenteringOffset_NoHalf(n, win, c) ==
    IF c THEN (IF win <= n THEN n - win ELSE n) ELSE 0

CenteringOffset(n, win, c) ==
    IF c THEN (IF win <= n THEN (n - win) \div 2 ELSE n) ELSE 0

\* the usize subtraction n_samples - win_length overflows
OffsetOverflows(n, win, c) == c /\ win > n

\* start = frame_idx * hop_length
FrameStart(frame_idx) == frame_idx * hop_length

\* the end of the frame without the clamp to the signal
FrameEnd_NoClamp(frame_idx) == FrameStart(frame_idx) + win_length

\* end = (start + win_length).clamp(0, audio.len())
FrameEnd(frame_idx) == Min(FrameStart(frame_idx) + win_length, Len(audio))

\* the complex buffer handed to the transform for frame frame_idx of signal
\* when the center flag is c
FrameBufferWith(signal, c, frame_idx) ==
    LET start == FrameStart(frame_idx)
        end == FrameEnd(frame_idx)
        off == CenteringOffset(n_samples, win_length, c)
        copied == Min(end - start, Max(n_samples - off, 0))
    IN  Vec([j \in 1..n_samples |->
                IF j > off /\ j <= off + copied
                THEN <<FMul(FromInt(signal[start + j - off]), window[j - off]), Zero>>
                ELSE CZero])

\* the buffer of frame frame_idx of signal under the flag of the call
FrameBufferOf(signal, frame_idx) == FrameBufferWith(signal, center, frame_idx)

\* the buffer of frame frame_idx of the call's audio
FrameBuffer(frame_idx) == FrameBufferOf(audio, frame_idx)

ZeroRow(n) == [f \in 1..n |-> Zero]

\* the closure run for one frame of signal: the new contents of out_row
FrameRowOf(signal, frame_idx) ==
    IF frame_idx * hop_length > Len(audio)
    THEN ZeroRow(n_freq_bins)
    ELSE LET frame == FftProcess(FrameBufferOf(signal, frame_idx), n_samples)
         IN  [f \in 1..n_freq_bins |->
                 transform_fn(spectrogram_type, frame[f], n_samples)]

\* the closure run for one frame of the call's audio
FrameRow(frame_idx) == FrameRowOf(audio, frame_idx)

\* rows handed out in the order in which the parallel units happen to start
OutRowIndex_ArrivalOrder(frame_idx) ==
    IF mode = "par" THEN n_frames - Cardinality(pending) + 1 ELSE frame_idx + 1

\* rows handed out in arrival order whatever the variant
OutRowIndex_Shared(frame_idx) == n_frames - Cardinality(pending) + 1

\* every unit handed the first row
OutRowIndex_FirstRow(frame_idx) == 1

\* the row of the frame-major buffer a work unit owns
OutRowIndex(frame_idx) == frame_idx + 1

\* entry of par_compute_spectrogram up to the allocation of the frame-major
\* buffer; the division by hop_length panics when it is zero
Call(type, m) ==
    /\ pc = "idle"
    /\ spectrogram_type' = type
    /\ mode' = m
    /\ window' = create_hann_window(win_length)
    /\ spectrogram' = <<>>
    /\ in_order' = TRUE
    /\ IF hop_length = 0
       THEN /\ pc' = "panicked"
            /\ UNCHANGED <<n_frames, n_freq_bins, transposed_spectrogram, pending>>
       ELSE /\ pc' = "frames"
            /\ n_frames' = NumFrames(Len(audio), win_length, hop_length)
            /\ n_freq_bins' = NumFreqBins(n_samples)
            /\ transposed_spectrogram' =
                   [t \in 1..n_frames' |-> ZeroRow(n_freq_bins')]
            /\ pending' = 0..(n_frames' - 1)
    /\ UNCHANGED <<inputs, overflow_checks, prev, melvars, aux>>

\* the build profile is fixed for the whole program: it is settled the first
\* time an overflowing subtraction is executed
BuildProfiles(oc) == IF oc = "unset" THEN {"on", "off"} ELSE {oc}

\* one work unit of the rayon loop, or one iteration of the sequential loop
FrameStep(frame_idx) ==
    /\ IF OffsetOverflows(n_samples, win_length, center)
          /\ frame_idx * hop_length <= Len(audio)
       THEN overflow_checks' \in BuildProfiles(overflow_checks)
       ELSE overflow_checks' = overflow_checks
    /\ IF OffsetOverflows(n_samples, win_length, center)
          /\ frame_idx * hop_length <= Len(audio)
          /\ overflow_checks' = "on"
       THEN /\ pc' = "panicked"
            /\ UNCHANGED <<transposed_spectrogram, pending>>
       ELSE /\ transposed_spectrogram' =
                   [transposed_spectrogram EXCEPT
                       ![OutRowIndex(frame_idx)] = FrameRow(frame_idx)]
            /\ pending' = pending \ {frame_idx}
            /\ pc' = pc
    /\ in_order' = (in_order /\ \A j \in pending : frame_idx <= j)
    /\ UNCHANGED <<inputs, spectrogram_type, mode, window, n_frames,
                   n_freq_bins, spectrogram, prev, melvars, aux>>

\* par_iter_mut().enumerate().for_each: the units run in any order
ParFrame(frame_idx) ==
    /\ pc = "frames"
    /\ mode = "par"
    /\ frame_idx \in pending
    /\ FrameStep(frame_idx)

\* the sequential variant: a plain loop over the frame indices
SeqFrame ==
    /\ pc = "frames"
    /\ mode = "seq"
    /\ pending # {}
    /\ FrameStep(CHOOSE k \in pending : \A j \in pending : k <= j)

\* the frame-major buffer returned as it is
TransposeOf_NoSwap(m, rows, cols) == m

\* spectrogram[f][t] = transposed_spectrogram[t][f]
TransposeOf(m, rows, cols) ==
    [f \in 1..rows |-> [t \in 1..cols |-> m[t][f]]]

Transpose ==
    /\ pc = "frames"
    /\ pending = {}
    /\ spectrogram' = TransposeOf(transposed_spectrogram, n_freq_bins, n_frames)
    /\ pc' = "returned"
    /\ UNCHANGED <<inputs, overflow_checks, spectrogram_type, mode, window,
                   n_frames, n_freq_bins, transposed_spectrogram, pending,
                   in_order, prev, melvars, aux>>

\* the caller keeps the returned matrix and may call again on the same inputs
Finish ==
    /\ pc = "returned"
    /\ prev' = [valid |-> TRUE, type |-> spectrogram_type, mode |-> mode,
                in_order |-> in_order, out |-> spectrogram]
    /\ pc' = "idle"
    /\ UNCHANGED <<inputs, overflow_checks, spectrogram_type, mode, window,
                   n_frames, n_freq_bins, transposed_spectrogram, pending,
                   in_order, spectrogram, melvars, aux>>

Next ==
    \/ \E type \in SpectrogramType, m \in Modes : Call(type, m)
    \/ \E k \in 0..MaxLen : ParFrame(k)
    \/ SeqFrame
    \/ Transpose
    \/ Finish

Spec == Init /\ [][Next]_vars

\* ---------------------------------------------------------------- mel stage
\* every logarithm and power the filter bank needs for these arguments is
\* rational
ExactHz(hz, mel_scale) ==
    IF mel_scale = "HTK"
    THEN HasLog(FAdd(FromInt(1), FDiv(hz, FromInt(700))), FromInt(10))
    ELSE FLt(hz, FromInt(1000)) \/ HasLog(FDiv(hz, FromInt(1000)), Q(32, 5))

ExactMel(mel, mel_scale) ==
    IF mel_scale = "HTK"
    THEN HasPowf(FDiv(mel, FromInt(2595)))
    ELSE FLt(mel, FromInt(15)) \/ HasPowf(FDiv(FSub(mel, FromInt(15)), FromInt(27)))

MelArgsExact(a) ==
    LET fmin == unwrap_or(a.f_min, Zero)
        fmax == unwrap_or(a.f_max, FDiv(FromInt(a.sr), FromInt(2)))
    IN  /\ ExactHz(fmin, a.mel_scale)
        /\ ExactHz(fmax, a.mel_scale)
        /\ \A i \in 0..(a.n_mels + 1) :
               ExactMel(MelPoint(hz_to_mel(fmin, a.mel_scale),
                                 hz_to_mel(fmax, a.mel_scale), i, a.n_mels + 2),
                        a.mel_scale)

MaxMels == 2

\* sample rates and cut-off frequencies (Hz) tried with each mel scale: the
\* Slaney scale is linear up to its 1000 Hz breakpoint, the HTK scale is
\* rational at 700 * (10^k - 1) Hz
SampleRates(mel_scale) == IF mel_scale = "Slaney" THEN {2000} ELSE {138600}

CutOffs(mel_scale) == IF mel_scale = "Slaney" THEN {0, 500, 1000} ELSE {0, 69300}

OptCutOffs(mel_scale) ==
    {None} \cup {Some(FromInt(f)) : f \in CutOffs(mel_scale)}

MelArgs ==
    {a \in UNION {[sr : SampleRates(ms), n_mels : 0..MaxMels,
                   f_min : OptCutOffs(ms), f_max : OptCutOffs(ms),
                   mel_scale : {ms}] : ms \in MelScale} : MelArgsExact(a)}

\* convert_to_mel applied to the matrix the engine returned, with the n_fft of
\* the engine call; spectrogram[0] panics on a matrix without rows
ConvertToMel(a) ==
    /\ pc = "returned"
    /\ \A x \in UNION {{spectrogram[f][t] : t \in 1..Len(spectrogram[f])} :
                        f \in 1..Len(spectrogram)} : ~IsSurd(x)
    /\ mel_args' = a
    /\ mel_filters' = create_mel_filter_bank(a.sr, n_samples, a.n_mels, a.f_min,
                                             a.f_max, a.mel_scale)
    /\ IF Len(spectrogram) = 0
       THEN /\ pc' = "panicked"
            /\ mel_spec' = <<>>
       ELSE /\ pc' = "mel_done"
            /\ mel_spec' = ApplyFilters(spectrogram, mel_filters', a.n_mels)
    /\ UNCHANGED <<inputs, overflow_checks, spectrogram_type, mode, window,
                   n_frames, n_freq_bins, transposed_spectrogram, pending,
                   in_order, spectrogram, prev, aux>>

\* the signals fed to the two-stage pipeline
MelAudios ==
    {[i \in 1..l |-> Sample(kind, i - 1)] :
        kind \in {"zero", "impulse", "quarter"}, l \in {0, MaxLen}}

InitMel ==
    /\ Init
    /\ audio \in MelAudios

NextMel ==
    \/ \E type \in SpectrogramType : Call(type, "par")
    \/ \E k \in 0..MaxLen : ParFrame(k)
    \/ Transpose
    \/ \E a \in MelArgs : ConvertToMel(a)

SpecMel == InitMel /\ [][NextMel]_vars

\* ------------------------------------------------------- scale conversion
enginevars == <<inputs, overflow_checks, spectrogram_type, mode, pc, window,
                n_frames, n_freq_bins, transposed_spectrogram, pending,
                in_order, spectrogram, prev>>

MaxHzStep == 44

\* frequencies (Hz) on a grid of 25 Hz, and the ones at which the logarithm of
\* each scale is an integer
HzGrid == {FromInt(25 * k) : k \in 0..MaxHzStep}

HtkHz ==
    {FMul(FromInt(700), FSub(IntPow(FromInt(10), e), FromInt(1))) :
        e \in {x \in Exponents : x >= 0}}

SlaneyHz ==
    {FMul(FromInt(1000), IntPow(Q(32, 5), e)) : e \in {x \in Exponents : x >= 0}}

ScaleInputs(mel_scale) ==
    {hz \in HzGrid \cup HtkHz \cup SlaneyHz : ExactHz(hz, mel_scale)}

\* the engine and the mel stage have not been called
EngineIdle ==
    /\ audio = <<>>
    /\ n_samples = 3
    /\ hop_length = 1
    /\ win_length = 2
    /\ center = FALSE
    /\ overflow_checks = "unset"
    /\ spectrogram_type = "Power"
    /\ mode = "par"
    /\ pc = "idle"
    /\ window = <<>>
    /\ n_frames = 0
    /\ n_freq_bins = 0
    /\ transposed_spectrogram = <<>>
    /\ pending = {}
    /\ in_order = TRUE
    /\ spectrogram = <<>>
    /\ prev = NoPrev
    /\ mel_args = NoMelArgs
    /\ mel_filters = <<>>
    /\ mel_spec = <<>>

InitScale ==
    /\ EngineIdle
    /\ ReadIdle
    /\ ImageIdle
    /\ scale_sel \in MelScale
    /\ scale_hz \in ScaleInputs(scale_sel)
    /\ scale_mel = Zero
    /\ scale_back = Zero
    /\ scale_pc = "idle"

\* let mel = hz_to_mel(hz, mel_scale)
ToMel ==
    /\ scale_pc = "idle"
    /\ scale_mel' = hz_to_mel(scale_hz, scale_sel)
    /\ scale_pc' = "mel"
    /\ UNCHANGED <<enginevars, melvars, readvars, imagevars, scale_hz, scale_sel,
                   scale_back>>

\* let back = mel_to_hz(mel, mel_scale)
ToHz ==
    /\ scale_pc = "mel"
    /\ scale_back' = mel_to_hz(scale_mel, scale_sel)
    /\ scale_pc' = "back"
    /\ UNCHANGED <<enginevars, melvars, readvars, imagevars, scale_hz, scale_sel,
                   scale_mel>>

NextScale == ToMel \/ ToHz

SpecScale == InitScale /\ [][NextScale]_vars

\* ------------------------------------------------------------ audio reader
MaxSamples == 3

RECURSIVE Pow2(_)
Pow2(k) == IF k = 0 THEN 1 ELSE 2 * Pow2(k - 1)

\* sample widths of integer PCM files
BitsPerSample == {8, 16, 24}

\* the extreme and the smallest values a sample of the given width can take
SampleValues(bits) == {-Pow2(bits - 1), -1, 0, 1, Pow2(bits - 1) - 1}

RECURSIVE SeqsUpTo(_, _)
SeqsUpTo(s, n) ==
    IF n = 0 THEN {<<>>}
    ELSE LET shorter == SeqsUpTo(s, n - 1)
         IN  shorter \cup {Append(q, x) : q \in shorter, x \in s}

WavFiles ==
    UNION {[channels : 1..3, bits_per_sample : {b},
            data : SeqsUpTo(SampleValues(b), MaxSamples)] : b \in BitsPerSample}

InitRead ==
    /\ EngineIdle
    /\ ScaleIdle
    /\ ImageIdle
    /\ wav \in WavFiles
    /\ read_i = 0
    /\ acc = 0
    /\ samples = <<>>
    /\ read_pc = "idle"

\* 2_f64.powi(bits_per_sample as i32 - 1)
max_value(bits) == FromInt(Pow2(bits - 1))

\* the stereo sample pushed without halving the sum
StereoSample_NoHalf(sum, bits) == FDiv(FromInt(sum), max_value(bits))

\* acc as f32 / 2.0 / max_value as f32
StereoSample(sum, bits) == FDiv(FDiv(FromInt(sum), FromInt(2)), max_value(bits))

\* sample as f32 / max_value as f32
MonoSample(sample, bits) == FDiv(FromInt(sample), max_value(bits))

\* open the file and read its header; more than two channels is an error
ReadOpen ==
    /\ read_pc = "idle"
    /\ read_pc' = IF wav.channels > 2 THEN "err" ELSE "loop"
    /\ UNCHANGED <<enginevars, melvars, scalevars, imagevars, wav, read_i, acc, samples>>

\* one iteration of the for_each over the decoded samples
ReadSample ==
    /\ read_pc = "loop"
    /\ read_i < Len(wav.data)
    /\ LET sample == wav.data[read_i + 1]
       IN  IF wav.channels = 2
           THEN IF read_i % 2 # 0
                THEN /\ samples' = Append(samples,
                                          StereoSample(acc + sample,
                                                       wav.bits_per_sample))
                     /\ acc' = 0
                ELSE /\ acc' = acc + sample
                     /\ samples' = samples
           ELSE /\ samples' = Append(samples,
                                     MonoSample(sample, wav.bits_per_sample))
                /\ acc' = acc
    /\ read_i' = read_i + 1
    /\ UNCHANGED <<enginevars, melvars, scalevars, imagevars, wav, read_pc>>

\* Ok((samples, sr))
ReadReturn ==
    /\ read_pc = "loop"
    /\ read_i = Len(wav.data)
    /\ read_pc' = "ok"
    /\ UNCHANGED <<enginevars, melvars, scalevars, imagevars, wav, read_i, acc, samples>>

NextRead == ReadOpen \/ ReadSample \/ ReadReturn

SpecRead == InitRead /\ [][NextRead]_vars

\* ----------------------------------------------------------- image writer
MaxRows == 4

MaxCols == 4

\* rectangular matrices; the colour of a pixel is a function of the cell it
\* is computed from, so a cell is represented by its position
ImageInputs ==
    {[f \in 1..r |-> [t \in 1..c |-> <<f - 1, t - 1>>]] :
        r \in 0..MaxRows, c \in 0..MaxCols}

InitImage ==
    /\ EngineIdle
    /\ ScaleIdle
    /\ ReadIdle
    /\ img_in \in ImageInputs
    /\ img = NoImage
    /\ img_pos = 0
    /\ img_pc = "idle"

\* the pixel row of a frequency row without the vertical flip
PixelY_NoFlip(n_bins, freq_idx) == freq_idx

\* y = n_freq_bins - 1 - freq_idx
PixelY(n_bins, freq_idx) == n_bins - 1 - freq_idx

\* ImageBuffer::new(n_frames, n_freq_bins); spectrogram[0] panics on a matrix
\* without rows
NewImage ==
    /\ img_pc = "idle"
    /\ IF Len(img_in) = 0
       THEN /\ img_pc' = "panicked"
            /\ img' = img
       ELSE /\ img_pc' = "fill"
            /\ img' = [width |-> Len(img_in[1]), height |-> Len(img_in),
                       pixels |-> [xy \in (0..(Len(img_in[1]) - 1)) \X
                                          (0..(Len(img_in) - 1)) |-> <<>>]]
    /\ UNCHANGED <<enginevars, melvars, scalevars, readvars, img_in, img_pos>>

\* img.put_pixel(x, y, ..) for the next cell in row-major order; put_pixel
\* panics outside the buffer
PutPixel ==
    /\ img_pc = "fill"
    /\ img_pos < Len(img_in) * img.width
    /\ LET freq_idx == img_pos \div img.width
           time_idx == img_pos % img.width
           y == PixelY(Len(img_in), freq_idx)
           x == time_idx
       IN  IF x \in 0..(img.width - 1) /\ y \in 0..(img.height - 1)
           THEN /\ img' = [img EXCEPT !.pixels[<<x, y>>] =
                               Append(@, img_in[freq_idx + 1][time_idx + 1])]
                /\ img_pc' = img_pc
           ELSE /\ img' = img
                /\ img_pc' = "panicked"
    /\ img_pos' = img_pos + 1
    /\ UNCHANGED <<enginevars, melvars, scalevars, readvars, img_in>>

\* the loops are over: the buffer is handed to img.save
FillDone ==
    /\ img_pc = "fill"
    /\ img_pos = Len(img_in) * img.width
    /\ img_pc' = "filled"
    /\ UNCHANGED <<enginevars, melvars, scalevars, readvars, img_in, img,
                   img_pos>>

NextImage == NewImage \/ PutPixel \/ FillDone

SpecImage == InitImage /\ [][NextImage]_vars

\* -------------------------------------------------------------- filter bank
\* create_mel_filter_bank called on its own, with n_samples as its n_fft
InitBank ==
    /\ Init
    /\ audio = <<>>
    /\ hop_length = 1
    /\ win_length = 2
    /\ center = FALSE

\* let weights = create_mel_filter_bank(sr, n_fft, n_mels, f_min, f_max, mel_scale)
BuildBank(a) ==
    /\ pc = "idle"
    /\ mel_args = NoMelArgs
    /\ mel_args' = a
    /\ mel_filters' = create_mel_filter_bank(a.sr, n_samples, a.n_mels, a.f_min,
                                             a.f_max, a.mel_scale)
    /\ UNCHANGED <<enginevars, mel_spec, aux>>

\* the bank of the state was built by a direct call
BankBuilt == pc = "idle" /\ mel_args # NoMelArgs

NextBank == \E a \in MelArgs : BuildBank(a)

SpecBank == InitBank /\ [][NextBank]_vars

\* ---------------------------------------------------------------- claims
Rows(m) == {m[f] : f \in 1..Len(m)}

Entries(m) == UNION {{m[f][t] : t \in 1..Len(m[f])} : f \in 1..Len(m)}

SameShape(a, b) ==
    /\ Len(a) = Len(b)
    /\ \A f \in 1..Len(a) : Len(a[f]) = Len(b[f])

\* the configurations the engine is specified for
ValidConfig ==
    /\ hop_length >= 1
    /\ win_length >= 2
    /\ win_length <= n_samples

\* C1: when the signal is at least as long as the window, every row of the
\* returned matrix holds exactly floor((L - W) / H) + 1 time frames.
C1_FrameCount ==
    (pc = "returned" /\ mode = "par" /\ Len(audio) >= win_length) =>
        /\ Len(spectrogram) >= 1
        /\ \A row \in Rows(spectrogram) :
               Len(row) = (Len(audio) - win_length) \div hop_length + 1

C1_Witness ==
    /\ pc = "returned"
    /\ mode = "par"
    /\ Len(audio) > win_length
    /\ win_length >= 3
    /\ \A row \in Rows(spectrogram) : Len(row) = 3

\* C2 as stated: a signal shorter than the window gives a matrix with zero
\* time frames.
C2_Original ==
    (pc = "returned" /\ mode = "par" /\ Len(audio) < win_length) =>
        \A row \in Rows(spectrogram) : Len(row) = 0

\* C2 as amended: a signal shorter than the window (hop_length >= 1,
\* win_length <= n_fft) raises no error and gives exactly one time frame in
\* each of the n_fft / 2 + 1 rows.
C2_OneFrameWhenShort ==
    (/\ mode = "par"
     /\ Len(audio) < win_length
     /\ hop_length >= 1
     /\ win_length <= n_samples) =>
        /\ pc # "panicked"
        /\ pc = "returned" =>
               /\ Len(spectrogram) = n_samples \div 2 + 1
               /\ \A row \in Rows(spectrogram) : Len(row) = 1

C2_Witness ==
    /\ pc = "returned"
    /\ mode = "par"
    /\ Len(audio) < win_length
    /\ Len(audio) >= 1
    /\ win_length <= n_samples
    /\ \A row \in Rows(spectrogram) : Len(row) = 1

\* C3: the matrix the engine returns has n_fft / 2 + 1 rows, and so has every
\* row of the filter bank built for the same n_fft entries.
C3_FreqBins ==
    /\ pc \in {"returned", "mel_done"} =>
           Len(spectrogram) = n_samples \div 2 + 1
    /\ pc = "mel_done" =>
           \A row \in Rows(mel_filters) : Len(row) = n_samples \div 2 + 1

C3_Witness ==
    /\ pc = "mel_done"
    /\ n_samples = 3
    /\ Len(spectrogram) = 2
    /\ Len(mel_filters) = 2
    /\ \A row \in Rows(mel_filters) : Len(row) = 2

C5_NonNegative ==
    /\ pc \in {"returned", "mel_done"} =>
           \A x \in Entries(spectrogram) : FGeZero(x)
    /\ (pc = "mel_done" /\ \A x \in Entries(spectrogram) : FGeZero(x)) =>
           \A x \in Entries(mel_spec) : FGeZero(x)

\* C6: a signal whose samples are all zero gives a spectrogram whose entries
\* are all zero.
C6_SilenceGivesZeros ==
    (pc = "returned" /\ mode = "par" /\ \A i \in 1..Len(audio) : audio[i] = 0) =>
        \A x \in Entries(spectrogram) : x = Zero

\* C7: the sequential variant returns the same matrix as the parallel one.
C7_SequentialEqualsParallel ==
    (/\ pc = "returned"
     /\ prev.valid
     /\ mode # prev.mode
     /\ spectrogram_type = prev.type) =>
        spectrogram = prev.out

C7_Witness ==
    /\ pc = "returned"
    /\ prev.valid
    /\ mode = "seq" /\ prev.mode = "par"
    /\ ~prev.in_order
    /\ spectrogram_type = prev.type
    /\ spectrogram = prev.out
    /\ \E f \in 1..Len(spectrogram) : spectrogram[f][1] # spectrogram[f][2]

\* C8: two parallel runs on the same arguments return the same matrix whatever
\* the order in which their work units ran.
C8_ScheduleIndependent ==
    (/\ pc = "returned"
     /\ prev.valid
     /\ mode = "par" /\ prev.mode = "par"
     /\ spectrogram_type = prev.type) =>
        spectrogram = prev.out

C8_Witness ==
    /\ pc = "returned"
    /\ prev.valid
    /\ mode = "par" /\ prev.mode = "par"
    /\ in_order /\ ~prev.in_order
    /\ spectrogram_type = prev.type
    /\ spectrogram = prev.out
    /\ \E f \in 1..Len(spectrogram) : spectrogram[f][1] # spectrogram[f][2]

\* C9: a call with win_length > n_fft computes no frame, does not crash and
\* returns no matrix.
C9_RejectsLongWindow ==
    (mode = "par" /\ win_length > n_samples /\ hop_length >= 1) =>
        /\ pc # "returned"
        /\ pc # "panicked"
        /\ pc = "frames" => pending = 0..(n_frames - 1)

\* C10: a call with hop_length = 0 does not crash and returns no matrix.
C10_RejectsZeroHop ==
    (mode = "par" /\ hop_length = 0) => (pc # "panicked" /\ pc # "returned")

\* C11: a call with win_length < 2 builds no window and no spectrogram: it
\* computes no frame, returns no matrix and does not crash.
C11_RejectsShortWindow ==
    (mode = "par" /\ win_length < 2 /\ hop_length >= 1) =>
        /\ window = <<>>
        /\ pc \notin {"frames", "returned", "panicked"}

\* the n_mels + 2 boundary frequencies create_mel_filter_bank works with
MelFreqs(a) ==
    create_mel_frequencies(unwrap_or(a.f_min, Zero),
                           unwrap_or(a.f_max, FDiv(FromInt(a.sr), FromInt(2))),
                           a.n_mels + 2, a.mel_scale)

\* the parameter sets the mel stage is specified to reject
DegenerateMel(a) ==
    \/ a.n_mels = 0
    \/ \E i \in 1..a.n_mels : MelFreqs(a)[i + 2] = MelFreqs(a)[i]

\* C12: convert_to_mel returns no matrix when n_mels = 0 or when two boundary
\* frequencies two apart coincide (in particular when f_min >= f_max).
C12_RejectsDegenerateMel ==
    pc = "mel_done" =>
        /\ ~DegenerateMel(mel_args)
        /\ ~FLt(unwrap_or(mel_args.f_max,
                          FDiv(FromInt(mel_args.sr), FromInt(2))),
                unwrap_or(mel_args.f_min, Zero))

\* C13: for n_mels >= 1 the matrix convert_to_mel returns has n_mels rows and
\* each of them has as many time frames as the rows of the input spectrogram.
C13_MelShape ==
    (pc = "mel_done" /\ mel_args.n_mels >= 1) =>
        /\ Len(mel_spec) = mel_args.n_mels
        /\ \A row \in Rows(mel_spec) : \A in_row \in Rows(spectrogram) :
               Len(row) = Len(in_row)

C13_Witness ==
    /\ pc = "mel_done"
    /\ mel_args.n_mels = 2
    /\ Len(mel_spec) = 2
    /\ Len(spectrogram) = 3
    /\ Len(spectrogram[1]) >= 3
    /\ \A row \in Rows(mel_spec) : Len(row) = Len(spectrogram[1])

\* the bins of a filter row that carry a non-zero weight
Support(row) == {j \in 1..Len(row) : row[j] # Zero}

Contiguous(s) == \A a \in s, b \in s : \A j \in a..b : j \in s

\* C14: every weight of the filter bank is >= 0 and the non-zero weights of a
\* row occupy one contiguous range of bins.
C14_FilterBankShape ==
    pc = "mel_done" =>
        \A row \in Rows(mel_filters) :
            /\ \A j \in 1..Len(row) : FGeZero(row[j])
            /\ Contiguous(Support(row))

\* what convert_to_mel returns for the spectrogram of the state when the
\* frequency range is passed explicitly
MelWithRange(a, f_min, f_max) ==
    ApplyFilters(spectrogram,
                 create_mel_filter_bank(a.sr, n_samples, a.n_mels, f_min, f_max,
                                        a.mel_scale),
                 a.n_mels)

\* C15: a call that omits f_min and f_max returns the matrix of the call that
\* passes f_min = 0.0 and f_max = sr / 2.
C15_DefaultRange ==
    (pc = "mel_done" /\ mel_args.f_min = None /\ mel_args.f_max = None) =>
        mel_spec = MelWithRange(mel_args, Some(Zero),
                                Some(FDiv(FromInt(mel_args.sr), FromInt(2))))

C15_Witness ==
    /\ pc = "mel_done"
    /\ mel_args.f_min = None /\ mel_args.f_max = None
    /\ mel_args.n_mels = 2
    /\ mel_spec = MelWithRange(mel_args, Some(Zero),
                               Some(FDiv(FromInt(mel_args.sr), FromInt(2))))
    /\ \E x \in Entries(mel_spec) : ~IsNaN(x) /\ x # Zero
    /\ mel_spec # MelWithRange(mel_args, Some(Zero), Some(Zero))

\* C16: converting a frequency >= 0 to mel and back recovers it, and on the
\* Slaney scale a frequency is below 1000 Hz exactly when its mel value is
\* below 15, so both directions take the same branch.
C16_RoundTrip ==
    /\ (scale_pc = "back" /\ FGeZero(scale_hz)) => FEq(scale_back, scale_hz)
    /\ (scale_pc \in {"mel", "back"} /\ scale_sel = "Slaney") =>
           (FLt(scale_hz, FromInt(1000)) <=> FLt(scale_mel, FromInt(15)))

C16_Witness ==
    /\ scale_pc = "back"
    /\ scale_sel = "Slaney"
    /\ scale_hz = FromInt(6400)
    /\ scale_mel = FromInt(42)
    /\ scale_back = scale_hz

\* x lies in [-1, 1]
InUnit(x) == ~FLt(x, FromInt(-1)) /\ ~FLt(FromInt(1), x) /\ ~IsNaN(x)

\* C17: a stereo file of n samples gives floor(n / 2) samples, the k-th being
\* (s[2k] + s[2k+1]) / 2 / 2^(bits - 1); a mono file gives n samples
\* s[k] / 2^(bits - 1); every returned sample lies in [-1, 1].
C17_MonoMix ==
    read_pc = "ok" =>
        LET n == Len(wav.data)
            scale == Pow2(wav.bits_per_sample - 1)
        IN  /\ wav.channels = 2 =>
                   /\ Len(samples) = n \div 2
                   /\ \A k \in 1..Len(samples) :
                          samples[k] =
                              Q(wav.data[2 * k - 1] + wav.data[2 * k], 2 * scale)
            /\ wav.channels = 1 =>
                   /\ Len(samples) = n
                   /\ \A k \in 1..Len(samples) :
                          samples[k] = Q(wav.data[k], scale)
            /\ \A k \in 1..Len(samples) : InUnit(samples[k])

C17_Witness ==
    /\ read_pc = "ok"
    /\ wav.channels = 2
    /\ wav.bits_per_sample = 16
    /\ Len(wav.data) = 3
    /\ wav.data[1] = 32767 /\ wav.data[2] = 32767
    /\ samples = <<Q(32767, 32768)>>

\* C18: the image is n_frames wide and n_rows high, the cell (f, t) is the
\* only write to the pixel x = t, y = n_rows - 1 - f, and every pixel is
\* written exactly once.
C18_PixelPlacement ==
    img_pc = "filled" =>
        LET n_rows == Len(img_in)
            n_cols == Len(img_in[1])
        IN  /\ img.width = n_cols
            /\ img.height = n_rows
            /\ \A f \in 0..(n_rows - 1), t \in 0..(n_cols - 1) :
                   img.pixels[<<t, n_rows - 1 - f>>] = << <<f, t>> >>
            /\ \A xy \in DOMAIN img.pixels : Len(img.pixels[xy]) = 1

C18_Witness ==
    /\ img_pc = "filled"
    /\ img.width = 3
    /\ img.height = 2
    /\ img.pixels[<<0, 1>>] = << <<0, 0>> >>
    /\ img.pixels[<<2, 0>>] = << <<1, 2>> >>

\* number of samples frame k takes from the signal: min(W, L - k*H)
FrameSamples(k) == Min(win_length, Len(audio) - k * hop_length)

\* C19: before the transform of frame k, the buffer holds
\* sample[k*H + i] * window[i] at position offset + i for every i below
\* min(W, L - k*H) and zero elsewhere, with offset = (n_fft - W) / 2 when
\* center is set and 0 otherwise.
C19_BufferLayout ==
    (pc = "frames" /\ mode = "par") =>
        \A k \in pending :
            LET offset == IF center THEN (n_samples - win_length) \div 2 ELSE 0
            IN  /\ \A i \in 0..(FrameSamples(k) - 1) :
                       /\ offset + i \in 0..(n_samples - 1)
                       /\ FrameBuffer(k)[offset + i + 1] =
                              <<FMul(FromInt(audio[k * hop_length + i + 1]),
                                     window[i + 1]), Zero>>
                /\ \A j \in 0..(n_samples - 1) :
                       j - offset \notin 0..(FrameSamples(k) - 1) =>
                           FrameBuffer(k)[j + 1] = CZero

\* C20: the returned matrix has n_freq_bins rows of n_frames entries and
\* output[f][t] is the value stored for bin f in row t of the frame-major
\* buffer.
C20_ExactTranspose ==
    (pc = "returned" /\ mode = "par") =>
        /\ Len(spectrogram) = n_freq_bins
        /\ \A f \in 1..n_freq_bins :
               /\ Len(spectrogram[f]) = n_frames
               /\ \A t \in 1..n_frames :
                      spectrogram[f][t] = transposed_spectrogram[t][f]

C20_Witness ==
    /\ pc = "returned"
    /\ mode = "par"
    /\ n_freq_bins = 4
    /\ n_frames = 3
    /\ Len(spectrogram) = 4
    /\ Len(spectrogram[1]) = 3
    /\ \E f \in 1..3, t \in 1..3 :
           /\ spectrogram[f][t] = transposed_spectrogram[t][f]
           /\ spectrogram[f][t] # spectrogram[t][f]
           /\ ~IsNaN(spectrogram[f][t])

\* C21: a step of the parallel phase is the work unit of one frame k; it
\* changes no row of the frame-major buffer other than row k, the row it
\* leaves there is computed from the signal and the window alone, and it
\* leaves the signal, the window and the configuration as they were.
C21_DisjointWrites ==
    [][(pc = "frames" /\ mode = "par" /\ pending' # pending) =>
          \E k \in pending :
              /\ pending' = pending \ {k}
              /\ \A t \in 1..n_frames :
                     transposed_spectrogram'[t] # transposed_spectrogram[t] =>
                         t = k + 1
              /\ transposed_spectrogram'[k + 1] = FrameRow(k)
              /\ audio' = audio
              /\ window' = window
              /\ <<n_samples, hop_length, win_length, center>>' =
                     <<n_samples, hop_length, win_length, center>>]_vars

C21_Witness ==
    /\ pc = "frames"
    /\ mode = "par"
    /\ n_frames = 3
    /\ pending = {1}
    /\ ~in_order
    /\ transposed_spectrogram[1] = FrameRow(0)
    /\ transposed_spectrogram[2] = ZeroRow(n_freq_bins)
    /\ transposed_spectrogram[3] = FrameRow(2)
    /\ FrameRow(0) # ZeroRow(n_freq_bins)

\* C22: with hop_length >= 1 and 2 <= win_length <= n_fft no call panics,
\* and every frame k < n_frames has start <= end <= L, end - start <= W and
\* offset + (end - start) <= n_fft.
C22_FrameStepsInRange ==
    (ValidConfig /\ mode = "par") =>
        /\ pc # "panicked"
        /\ pc \in {"frames", "returned"} =>
               \A k \in 0..(n_frames - 1) :
                   /\ FrameStart(k) <= FrameEnd(k)
                   /\ FrameEnd(k) <= Len(audio)
                   /\ FrameEnd(k) - FrameStart(k) <= win_length
                   /\ FrameEnd(k) - FrameStart(k) <= Len(window)
                   /\ CenteringOffset(n_samples, win_length, center)
                          + (FrameEnd(k) - FrameStart(k)) <= n_samples

C22_Witness ==
    /\ ValidConfig
    /\ mode = "par"
    /\ pc = "returned"
    /\ center
    /\ n_frames = 3
    /\ win_length = 3
    /\ n_samples = 6
    /\ FrameEnd(2) = Len(audio)
    /\ CenteringOffset(n_samples, win_length, center) = 1

RECURSIVE SumSeq(_)
\* the sum of a sequence of numbers
SumSeq(s) == IF s = <<>> THEN Zero ELSE FAdd(Head(s), SumSeq(Tail(s)))

\* the bank create_mel_filter_bank builds from the arguments of the call
BankOfCall ==
    create_mel_filter_bank(mel_args.sr, n_samples, mel_args.n_mels,
                           mel_args.f_min, mel_args.f_max, mel_args.mel_scale)

\* spectrogram[f][t] * filter[i][f] for every frequency bin f in [0, n_fft/2]
BinProducts(filter, i, t) ==
    Vec([f \in 1..(n_samples \div 2 + 1) |-> FMul(spectrogram[f][t], filter[i][f])])

\* C23: for every mel bin i and time frame t, mel[i][t] is the sum over all
\* frequency bins f in [0, n_fft/2] of spectrogram[f][t] * filter[i][f], with
\* filter the bank convert_to_mel built with create_mel_filter_bank from its
\* own arguments (mel_filters).
C23_MelIsFilterSum ==
    pc = "mel_done" =>
        \A i \in 1..mel_args.n_mels : \A t \in 1..n_frames :
            mel_spec[i][t] = SumSeq(BinProducts(mel_filters, i, t))

C23_Witness ==
    /\ pc = "mel_done"
    /\ mel_args.n_mels >= 1
    /\ n_samples = 6
    /\ n_frames >= 2
    /\ mel_filters = BankOfCall
    /\ \E i \in 1..mel_args.n_mels : \E t \in 1..n_frames :
           /\ mel_spec[i][t] = SumSeq(BinProducts(mel_filters, i, t))
           /\ ~IsNaN(mel_spec[i][t])
           /\ mel_spec[i][t] # Zero
           /\ Cardinality({f \in 1..4 : BinProducts(mel_filters, i, t)[f] # Zero}) >= 2

\* f_min < f_max after the defaults of create_mel_filter_bank
RangeAscending(a) ==
    FLt(unwrap_or(a.f_min, Zero), unwrap_or(a.f_max, FDiv(FromInt(a.sr), FromInt(2))))

\* the height 2 / (hi - lo) of a filter scaled by the fraction num / den
Ramp(num, den, lo, hi) == FMul(FDiv(num, den), FDiv(FromInt(2), FSub(hi, lo)))

\* the weight at frequency x of a triangle rising from lo to mid and falling
\* to hi, zero outside [lo, hi]
TriangleAt(lo, mid, hi, x) ==
    IF FLt(x, lo) \/ FLt(hi, x) THEN Zero
    ELSE IF FLt(x, mid) THEN Ramp(FSub(x, lo), FSub(mid, lo), lo, hi)
    ELSE Ramp(FSub(hi, x), FSub(hi, mid), lo, hi)

\* C24: for f_min < f_max, row i of the filter bank is zero at every FFT bin
\* whose frequency lies outside [mel_freqs[i], mel_freqs[i+2]], rises linearly
\* from mel_freqs[i] to its peak at mel_freqs[i+1] and falls linearly to zero
\* at mel_freqs[i+2].
C24_TriangularFilters ==
    (BankBuilt /\ RangeAscending(mel_args)) =>
        LET m == MelFreqs(mel_args)
            x == FftFreqs(mel_args.sr, n_samples)
        IN  /\ \A i \in 1..(mel_args.n_mels + 1) : FLt(m[i], m[i + 1])
            /\ \A i \in 1..mel_args.n_mels : \A j \in 1..(n_samples \div 2 + 1) :
                   mel_filters[i][j] = TriangleAt(m[i], m[i + 1], m[i + 2], x[j])

C24_Witness ==
    /\ BankBuilt
    /\ RangeAscending(mel_args)
    /\ mel_args.n_mels = 2
    /\ LET m == MelFreqs(mel_args)
           x == FftFreqs(mel_args.sr, n_samples)
       IN  \E i \in 1..2 : \E out, peak \in 1..(n_samples \div 2 + 1) :
               /\ FLt(m[i + 2], x[out])
               /\ mel_filters[i][out] = Zero
               /\ x[peak] = m[i + 1]
               /\ mel_filters[i][peak] = FDiv(FromInt(2), FSub(m[i + 2], m[i]))
               /\ \A j \in 1..(n_samples \div 2 + 1) :
                      ~FLt(mel_filters[i][peak], mel_filters[i][j])

\* 2 / (mel_freqs[i+2] - mel_freqs[i])
RowScale(mel_freqs, i) == FDiv(FromInt(2), FSub(mel_freqs[i + 2], mel_freqs[i]))

\* C25: every row i of the filter bank is scaled by
\* 2 / (mel_freqs[i+2] - mel_freqs[i]) under MelScale::HTK and under
\* MelScale::Slaney alike: the scale only enters through mel_freqs.
C25_SlaneyNormAlways ==
    BankBuilt =>
        LET m == MelFreqs(mel_args)
            x == FftFreqs(mel_args.sr, n_samples)
        IN  \A scale \in MelScale :
                mel_args.mel_scale = scale =>
                    \A i \in 1..mel_args.n_mels : \A j \in 1..(n_samples \div 2 + 1) :
                        mel_filters[i][j] = FMul(Triangle(m, i, x[j]), RowScale(m, i))

C25_Witness ==
    /\ BankBuilt
    /\ mel_args.mel_scale = "HTK"
    /\ mel_args.n_mels = 1
    /\ RangeAscending(mel_args)
    /\ LET m == MelFreqs(mel_args)
           x == FftFreqs(mel_args.sr, n_samples)
       IN  /\ RowScale(m, 1) # FromInt(1)
           /\ \E j \in 1..(n_samples \div 2 + 1) :
                  /\ Triangle(m, 1, x[j]) # Zero
                  /\ mel_filters[1][j] = FMul(Triangle(m, 1, x[j]), RowScale(m, 1))
                  /\ mel_filters[1][j] # Triangle(m, 1, x[j])

\* C26: a frame whose start offset k * hop_length exceeds the signal length
\* raises no error and is not one of the time frames of the matrix: neither
\* the frame-major buffer nor the returned matrix has a column for it.
C26_LateFramesDropped ==
    /\ pc = "panicked" =>
           hop_length = 0 \/ OffsetOverflows(n_samples, win_length, center)
    /\ (mode = "par" /\ pc \in {"frames", "returned"}) =>
           \A k \in 0..(Len(audio) + 1) :
               FrameStart(k) > Len(audio) =>
                   /\ k + 1 \notin DOMAIN transposed_spectrogram
                   /\ pc = "returned" =>
                          \A row \in Rows(spectrogram) : k + 1 \notin DOMAIN row

C26_Witness ==
    /\ mode = "par"
    /\ pc = "returned"
    /\ ValidConfig
    /\ hop_length = 2
    /\ Len(audio) = 5
    /\ n_frames = 2
    /\ FrameStart(3) > Len(audio)
    /\ \A row \in Rows(spectrogram) : DOMAIN row = 1..2
    /\ \E x \in Entries(spectrogram) : x # Zero

\* C27: for every audio, the empty one included, and hop_length >= 1 the
\* returned matrix has at least one row and every row has at least one time
\* frame, so the spectrogram[0] access of the stage fed with it is in range:
\* no panic comes from convert_to_mel.
C27_NonEmptyOutput ==
    /\ pc \in {"returned", "mel_done"} =>
           /\ hop_length >= 1
           /\ Len(spectrogram) >= 1
           /\ \A f \in 1..Len(spectrogram) : Len(spectrogram[f]) >= 1
    /\ pc = "panicked" => mel_args = NoMelArgs
    /\ pc = "mel_done" =>
           \A i \in 1..Len(mel_spec) : Len(mel_spec[i]) = Len(spectrogram[1])

C27_Witness ==
    /\ pc = "mel_done"
    /\ Len(audio) = 0
    /\ hop_length >= 1
    /\ Len(spectrogram) = 4
    /\ \A f \in 1..4 : Len(spectrogram[f]) = 1
    /\ mel_args.n_mels = 2
    /\ Len(mel_spec) = 2
    /\ Len(mel_spec[1]) = 1

\* the number of samples frame k copies from the signal
FrameLen(k) == FrameEnd(k) - FrameStart(k)

\* C28: with hop_length >= 1 and L >= win_length every frame k < n_frames has
\* k * H + W <= L, so it is a full window; the guard "start > audio.len()" is
\* never taken; a frame shorter than W occurs only when L < W, and then it is
\* the single frame 0, of length L.
C28_FramesAreFull ==
    (mode = "par" /\ pc \in {"frames", "returned"}) =>
        /\ hop_length >= 1
        /\ \A k \in 0..(n_frames - 1) :
               /\ ~(FrameStart(k) > Len(audio))
               /\ Len(audio) >= win_length =>
                      /\ FrameStart(k) + win_length <= Len(audio)
                      /\ FrameLen(k) = win_length
               /\ FrameLen(k) < win_length =>
                      /\ Len(audio) < win_length
                      /\ k = 0
                      /\ n_frames = 1
                      /\ FrameLen(k) = Len(audio)

C28_Witness ==
    /\ mode = "par"
    /\ pc = "returned"
    /\ ValidConfig
    /\ Len(audio) = 5
    /\ win_length = 4
    /\ hop_length = 1
    /\ n_frames = 2
    /\ FrameLen(0) = 4
    /\ FrameLen(1) = 4
    /\ FrameEnd(1) = Len(audio)
    /\ \E x \in Entries(spectrogram) : x # Zero

\* the first index (from 0) after the last full frame: (n_frames - 1) * H + W
TailStart == (n_frames - 1) * hop_length + win_length

\* the audio with every sample from TailStart on replaced by s
WithTail(s) == [i \in 1..Len(audio) |-> IF i > TailStart THEN s ELSE audio[i]]

\* C29: with L >= win_length the samples at indices >= (n_frames - 1) * H + W
\* are read by no frame and do not influence the output, and there are
\* exactly (L - W) mod H of them, fewer than hop_length.
C29_TrailingSamplesUnread ==
    (mode = "par" /\ pc = "returned" /\ Len(audio) >= win_length) =>
        /\ Len(audio) - TailStart = (Len(audio) - win_length) % hop_length
        /\ Len(audio) - TailStart < hop_length
        /\ \A k \in 0..(n_frames - 1) : FrameEnd(k) <= TailStart
        /\ \A s \in {-1, 0, 1} : \A k \in 0..(n_frames - 1) :
               FrameBufferOf(WithTail(s), k) = FrameBuffer(k)
        /\ \A t \in 1..n_frames :
               LET row == Vec(FrameRowOf(WithTail(0), t - 1))
               IN  \A f \in 1..n_freq_bins : spectrogram[f][t] = row[f]

C29_Witness ==
    /\ mode = "par"
    /\ pc = "returned"
    /\ ValidConfig
    /\ Len(audio) = 5
    /\ win_length = 4
    /\ hop_length = 2
    /\ TailStart = 4
    /\ audio[5] # 0
    /\ WithTail(0) # audio
    /\ \A f \in 1..n_freq_bins : spectrogram[f][1] = FrameRowOf(WithTail(0), 0)[f]
    /\ \E x \in Entries(spectrogram) : x # Zero

\* (n_fft - W) / 2 when the flag of the call is set, 0 otherwise
Shift == IF center THEN (n_samples - win_length) \div 2 ELSE 0

\* C30: for win_length <= n_fft the center flag changes neither the shape of
\* the output nor the samples [k*H, min(k*H + W, L)) a frame reads nor the
\* window weight paired with each sample: the buffer of frame k is the buffer
\* of the call without the flag moved up by (n_fft - W) / 2 positions.
C30_CenterOnlyShifts ==
    (mode = "par" /\ pc = "returned" /\ win_length <= n_samples) =>
        /\ n_frames = saturating_sub(Len(audio), win_length) \div hop_length + 1
        /\ n_freq_bins = n_samples \div 2 + 1
        /\ DOMAIN spectrogram = 1..n_freq_bins
        /\ \A f \in 1..n_freq_bins : DOMAIN spectrogram[f] = 1..n_frames
        /\ \A k \in 0..(n_frames - 1) :
               LET plain == FrameBufferWith(audio, FALSE, k)
                   frame == FrameBuffer(k)
               IN  /\ \A i \in 0..(FrameLen(k) - 1) :
                          frame[Shift + i + 1] =
                              <<FMul(FromInt(audio[FrameStart(k) + i + 1]),
                                     window[i + 1]), Zero>>
                   /\ \A j \in 1..n_samples :
                          frame[j] = IF j > Shift THEN plain[j - Shift] ELSE CZero
                   /\ \A j \in (n_samples - Shift + 1)..n_samples : plain[j] = CZero

C30_Witness ==
    /\ mode = "par"
    /\ pc = "returned"
    /\ center
    /\ win_length = 4
    /\ n_samples = 6
    /\ Shift = 1
    /\ n_frames = 2
    /\ FrameBuffer(0)[3] # CZero
    /\ FrameBuffer(0)[3] = FrameBufferWith(audio, FALSE, 0)[2]
    /\ FrameBuffer(0) # FrameBufferWith(audio, FALSE, 0)
    /\ \E x \in Entries(spectrogram) : x # Zero


====
